---- MODULE Spec2Model ----
(***************************************************************************)
(* Fleet rollout and validation engine of nrdot-lab.                       *)
(*                                                                         *)
(*  - RolloutSpec / FairRolloutSpec: RolloutOrchestrator.execute, one      *)
(*    main thread submitting the hosts of a job to a ThreadPoolExecutor    *)
(*    and collecting the futures, and the pool's worker threads running    *)
(*    _process_host (zcp_rollout/orchestrator.py).                         *)
(*  - BreakerSpec: sequential NRDBClient.query calls on one client and     *)
(*    its CircuitBreaker (zcp_validate/nrdb_client.py).                    *)
(***************************************************************************)
EXTENDS Integers, Sequences, FiniteSets, TLC

VARIABLES
    \* ---- rollout: the job (read-only) ----
    hosts,          \* job.hosts: sequence of hostnames (RolloutHost.hostname)
    parallel,       \* job.parallel
    mode,           \* the mode string execute is called with
    injected,       \* RolloutOrchestrator(backend=...) was given a backend
    \* ---- rollout: execute() ----
    pc,             \* main thread: "start" | "submit" | "collect" | "drain"
                    \*              | "done" | "raised" | "config_error"
    phase,          \* per host index: "unsubmitted" | "queued" | "transfer"
                    \*                 | "restart" | "returned" | "raised"
    hung,           \* host indices whose current backend call never returns
    tres,           \* per host: what backend.transfer returned (none/ok/fail)
    rres,           \* per host: what backend.restart returned (none/ok/fail)
    transferCalls,  \* per host: number of backend.transfer invocations
    restartCalls,   \* per host: number of backend.restart invocations
    futVal,         \* per host: the HostResult its future returned
    futExc,         \* per host: the text of the exception its future raised
    collected,      \* host indices as_completed has yielded
    results,        \* results dict: hostname -> HostResult
    report,         \* the RolloutReport execute returns
    aborted,        \* the caller interrupted execute (KeyboardInterrupt)
    \* ---- metrics client: configuration (read-only) ----
    threshold,      \* CircuitBreaker._threshold
    reset_seconds,  \* CircuitBreaker._reset_seconds
    \* ---- metrics client: breaker state and clock ----
    failures,       \* CircuitBreaker._failures
    open_since,     \* CircuitBreaker._open_since
    now,            \* time.time(), whole seconds
    lastCall,       \* the last query call: what it saw and how it ended
    streak,         \* consecutive calls that passed the breaker and raised
    probeFailAt,    \* time a failed post-window call ended, -1 if the last
                    \* call was not one
    failedAt,       \* time of the last record_failure call, -1 if none
    \* ---- validation: Validator.validate() and ValidationResult ----
    job,            \* the ValidationJob
    vpc,            \* "start" | "validated" | "constructed"
    vq,             \* what the metrics query of this validate call did
    given,          \* overall_pass and pass_rate as passed to the constructor
    vresult,        \* the ValidationResult that was constructed
    vqueries,       \* NRDBClient.query calls this validate call has made
    \* ---- metrics client shared by several threads ----
    tpc,            \* per thread: "idle" | "request" | "rf_store" | "rf_check"
    tlocal,         \* per thread: the _failures value its `+= 1` has loaded
    recorded,       \* record_failure calls since the count was last reset
    reachedAt,      \* time recorded reached the threshold, -1 if it has not
    \* ---- paginating client (client/nrdb.py): NRDBClient.execute_query ----
    max_retries,    \* self.max_retries
    cache_ttl,      \* self.cache_ttl
    cache,          \* self.cache: query_hash -> [timestamp, data]
    ctime,          \* time.time() as this client reads it
    cpc,            \* "idle" | "loop": outside execute_query / in its while
    call,           \* the execute_query call in progress or last made
    retries,        \* the local variable retries
    sent,           \* requests.post calls made by this call
    limited,        \* how many of them were answered 429
    cresult,        \* how the last call ended and what it returned
    \* ---- event bus (zcp_core/bus.py): SyncMemBackend ----
    subscribers,    \* self._subscribers: list of handlers [id, kind, topic]
    coros,          \* events of publish coroutines created and never awaited
    inbox,          \* per handler id: the events its handle() was run with
    published,      \* every publish call: its event, the subscriber list
                    \* at the call, and whether the coroutine was awaited
    nextId          \* stands for uuid4(): the next event_id

jobVars == <<hosts, parallel, mode, injected>>
rolloutVars == <<jobVars, pc, phase, hung, tres, rres, transferCalls,
                 restartCalls, futVal, futExc, collected, results, report,
                 aborted>>
breakerVars == <<threshold, reset_seconds, failures, open_since, now,
                 lastCall, streak, probeFailAt, failedAt>>
validateVars == <<job, vpc, vq, given, vresult, vqueries>>
threadVars == <<tpc, tlocal, recorded, reachedAt>>
clientVars == <<max_retries, cache_ttl, cache, ctime, cpc, call, retries,
                sent, limited, cresult>>
busVars == <<subscribers, coros, inbox, published, nextId>>
notBus == <<breakerVars, validateVars, threadVars, clientVars>>
outsideRollout == <<notBus, busVars>>
outsideBreaker == <<rolloutVars, validateVars, threadVars, clientVars, busVars>>
outsideValidate == <<rolloutVars, breakerVars, threadVars, clientVars, busVars>>
outsideClient == <<rolloutVars, breakerVars, validateVars, threadVars, busVars>>
outsideBus == <<rolloutVars, notBus>>
vars == <<rolloutVars, breakerVars, validateVars, threadVars, clientVars,
          busVars>>

(***************************************************************************)
(* Bounds                                                                  *)
(***************************************************************************)
MaxHosts == 3
MaxParallel == 2
MaxThreshold == 3
MaxReset == 2
MaxTime == 7
MaxDelay == 1

Names == {"h1", "h2"}

(***************************************************************************)
(* Rollout data model                                                      *)
(***************************************************************************)
\* HostResult(hostname, success, message); a message is a sequence of text
\* pieces, so that f"Error: {e}" keeps the exception text as a piece.
HostResult(h, s, m) == [hostname |-> h, success |-> s, message |-> m]

NoResult == HostResult("", FALSE, <<>>)

NoReport == [success |-> 0, fail |-> 0, results |-> <<>>]

TransferException == "transfer exploded"
RestartException == "restart exploded"

\* What a backend's transfer and restart return for a host.
TransferResult(h, o) ==
    HostResult(h, o = "ok",
               IF o = "ok" THEN <<"Transfer ok">> ELSE <<"Transfer failed">>)

RestartResult(h, o) ==
    HostResult(h, o = "ok",
               IF o = "ok" THEN <<"Restart ok">> ELSE <<"Restart failed">>)

\* HostResult(hostname=host.hostname, success=False, message=f"Error: {str(e)}")
ErrorResult(h, e) == HostResult(h, FALSE, <<"Error: ", e>>)

N == Len(hosts)
Idx == 1..N

Running == {i \in Idx : phase[i] \in {"transfer", "restart"}}
Finished == {i \in Idx : phase[i] \in {"returned", "raised"}}

\* dict assignment d[k] = v
Put(d, k, v) == (k :> v) @@ d

Contains(msg, text) == \E k \in 1..Len(msg) : msg[k] = text

\* lastCall before any query has been made
NoCall ==
    [result |-> "none", net |-> FALSE, at |-> 0, preFailures |-> 0,
     preOpen |-> 0, checkedFailures |-> 0, postFailures |-> 0,
     successRecorded |-> FALSE, preStreak |-> 0, prevResult |-> "none",
     prevProbeFailAt |-> -1]

(***************************************************************************)
(* Validation data model.  Quantities of data are counted in tenths of a   *)
(* GiB, fractions (threshold, confidence) in hundredths; a float is the    *)
(* exact rational [num, den] with den > 0.                                 *)
(***************************************************************************)
Ratio(n, d) == [num |-> n, den |-> d]

RatDiv(r, k) == Ratio(r.num, r.den * k)

RatMul(r, k) == Ratio(r.num * k, r.den)

RatLeq(a, b) == a.num * b.den <= b.num * a.den

RatEq(a, b) == a.num * b.den = b.num * a.den

Abs(x) == IF x >= 0 THEN x ELSE -x

\* ValidationJob(hosts, expected_gib_day, confidence, threshold)
ValidationJob(hs, e, c, t) ==
    [hosts |-> hs, expected_gib_day |-> e, confidence |-> c, threshold |-> t]

HostValidationResult(h, e, a, w, dp, m) ==
    [hostname |-> h, expected_gib_day |-> e, actual_gib_day |-> a,
     within_threshold |-> w, deviation_percent |-> dp, message |-> m]

\* one facet of the query result; numeric is FALSE for a giBIngested of null
Row(h, g, isNum) == [hostname |-> h, giBIngested |-> g, numeric |-> isNum]

\* the metrics query returned {"results": rows}
QueryReturns(rows) == [raises |-> FALSE, text |-> "", results |-> rows]

\* the metrics query raised an exception whose str() is text
QueryRaises(text) == [raises |-> TRUE, text |-> text, results |-> <<>>]

NoQuery == [raises |-> FALSE, text |-> "no query", results |-> <<>>]

NoGiven == [overall_pass |-> FALSE, pass_rate |-> Ratio(0, 1)]

NoValidation ==
    [host_results |-> <<>>, overall_pass |-> FALSE, pass_rate |-> Ratio(0, 1)]

ValidatorIdle ==
    /\ job = ValidationJob(<<>>, 0, 100, 0)
    /\ vpc = "constructed"
    /\ vq = NoQuery
    /\ given = NoGiven
    /\ vresult = NoValidation
    /\ vqueries = 0

(***************************************************************************)
(* Rollout: initial state                                                  *)
(***************************************************************************)
\* execute_query has not been called
NoQueryCall ==
    [key |-> "", use_cache |-> FALSE, hadEntry |-> FALSE, entryAge |-> 0,
     entryData |-> "", at |-> 0]

\* what execute_query returned or raised
Ended(kind, data) == [kind |-> kind, data |-> data]

\* a paginating client that is not in use
ClientIdle ==
    /\ max_retries = 0
    /\ cache_ttl = 1
    /\ cache = <<>>
    /\ ctime = 0
    /\ cpc = "idle"
    /\ call = NoQueryCall
    /\ retries = 0
    /\ sent = 0
    /\ limited = 0
    /\ cresult = Ended("none", "")

\* no thread is using the metrics client
ThreadsIdle ==
    /\ tpc = <<>>
    /\ tlocal = <<>>
    /\ recorded = 0
    /\ reachedAt = -1

BreakerIdle ==
    /\ ThreadsIdle
    /\ threshold = 1
    /\ reset_seconds = 1
    /\ failures = 0
    /\ open_since = 0
    /\ now = MaxReset
    /\ lastCall = NoCall
    /\ streak = 0
    /\ probeFailAt = -1
    /\ failedAt = -1

(***************************************************************************)
(* Event bus data (zcp_core/bus.py).  A topic is the sequence of its        *)
(* pieces, so that prefixes and the last character can be computed.         *)
(***************************************************************************)
RolloutCompleted == <<"rollout", ".", "completed">>

Event(topic, id, payload) == [topic |-> topic, event_id |-> id,
                              payload |-> payload]

\* a handler subscribed with a str topic / with a compiled pattern
StrHandler(id, topic) == [id |-> id, kind |-> "str", topic |-> topic]
ReHandler(id, topic) == [id |-> id, kind |-> "re", topic |-> topic]

\* the consumer of rollout notifications
Consumer == StrHandler("consumer", RolloutCompleted)

\* the subscribers of test_sync_backend
Sub1 == StrHandler("sub1", <<"test", ".", "topic">>)
Sub2 == StrHandler("sub2", <<"test", ".", "*">>)
Sub3 == ReHandler("sub3", <<"test", ".", ".*">>)

Handlers == {Sub1, Sub2, Sub3}
HandlerIds == {h.id : h \in Handlers \cup {Consumer}}

StartsWith(t, prefix) ==
    Len(prefix) <= Len(t) /\ SubSeq(t, 1, Len(prefix)) = prefix

EndsWith(t, piece) == t # <<>> /\ t[Len(t)] = piece

AllButLast(t) == SubSeq(t, 1, Len(t) - 1)

\* sub.topic == event.topic or
\* sub.topic.endswith('*') and event.topic.startswith(sub.topic[:-1])
StrMatches(pattern, t) ==
    \/ pattern = t
    \/ EndsWith(pattern, "*") /\ StartsWith(t, AllButLast(pattern))

\* Pattern.match: the pattern must match at the start of the topic; the
\* patterns in use are literal pieces, optionally ending with .*
ReMatches(pattern, t) ==
    IF EndsWith(pattern, ".*") THEN StartsWith(t, AllButLast(pattern))
    ELSE StartsWith(t, pattern)

Matches(h, t) ==
    IF h.kind = "str" THEN StrMatches(h.topic, t) ELSE ReMatches(h.topic, t)

\* the loop of SyncMemBackend.publish followed by the gather: handle(e) runs
\* once for every matching element of the list, in list order
RECURSIVE Dispatch(_, _, _)
Dispatch(subs, box, e) ==
    IF subs = <<>> THEN box
    ELSE LET h == Head(subs)
             b == IF Matches(h, e.topic)
                  THEN [box EXCEPT ![h.id] = Append(@, e)]
                  ELSE box
         IN  Dispatch(Tail(subs), b, e)

\* what a publish call adds to the log
Published(e, awaited) ==
    Append(published, [event |-> e, subscribers |-> subscribers,
                       awaited |-> awaited])

\* the bus before anything was published, with the given subscriber list
BusWith(subs) ==
    /\ subscribers = subs
    /\ coros = <<>>
    /\ inbox = [id \in HandlerIds |-> <<>>]
    /\ published = <<>>
    /\ nextId = 1

BusEmpty == BusWith(<<>>)

\* the mode strings _get_backend has a backend class for
KnownModes == {"print", "ssh", "ansible"}

\* execute(job, mode) has been called and has not run a statement yet
ExecuteCalled ==
    /\ pc = "start"
    /\ phase = [i \in 1..Len(hosts) |-> "unsubmitted"]
    /\ hung = {}
    /\ tres = [i \in 1..Len(hosts) |-> "none"]
    /\ rres = [i \in 1..Len(hosts) |-> "none"]
    /\ transferCalls = [i \in 1..Len(hosts) |-> 0]
    /\ restartCalls = [i \in 1..Len(hosts) |-> 0]
    /\ futVal = [i \in 1..Len(hosts) |-> NoResult]
    /\ futExc = [i \in 1..Len(hosts) |-> ""]
    /\ collected = {}
    /\ results = <<>>
    /\ report = NoReport
    /\ aborted = FALSE
    /\ BreakerIdle
    /\ ValidatorIdle
    /\ ClientIdle
    /\ BusWith(<<Consumer>>)

\* A job run in a mode the orchestrator has a backend class for; what the
\* backend's calls do is left open by the worker actions, so one such mode
\* stands for the three.
RolloutInit ==
    /\ hosts \in UNION {[1..n -> Names] : n \in 0..MaxHosts}
    /\ parallel \in 1..MaxParallel
    /\ mode = "print"
    /\ injected = FALSE
    /\ ExecuteCalled

(***************************************************************************)
(* Rollout: main thread                                                    *)
(***************************************************************************)
AnyBackend(m, inj) == TRUE

\* _get_backend(mode) returns a backend: the one given to the constructor,
\* whatever the mode, else the class the mode names
BackendFound(m, inj) == inj \/ m \in KnownModes

\* backend = self._get_backend(mode) returns; the executor is created
GetBackend ==
    /\ pc = "start"
    /\ BackendFound(mode, injected)
    /\ pc' = "submit"
    /\ UNCHANGED <<outsideRollout, jobVars, phase, hung, tres, rres,
                   transferCalls, restartCalls, futVal, futExc, collected,
                   results, report, aborted>>

\* _get_backend(mode) raises ValueError("Unknown backend mode: ..."), which
\* leaves execute before the executor exists
UnknownMode ==
    /\ pc = "start"
    /\ ~BackendFound(mode, injected)
    /\ pc' = "config_error"
    /\ UNCHANGED <<outsideRollout, jobVars, phase, hung, tres, rres,
                   transferCalls, restartCalls, futVal, futExc, collected,
                   results, report, aborted>>

\* executor.submit(self._process_host, host, ...) for the next host of job.hosts
Submit ==
    /\ pc = "submit"
    /\ \E i \in Idx :
        /\ phase[i] = "unsubmitted"
        /\ \A j \in 1..(i - 1) : phase[j] # "unsubmitted"
        /\ phase' = [phase EXCEPT ![i] = "queued"]
    /\ UNCHANGED <<outsideRollout, jobVars, pc, hung, tres, rres,
                   transferCalls, restartCalls, futVal, futExc, collected,
                   results, report, aborted>>

\* the dict comprehension is complete; the as_completed loop begins
SubmitDone ==
    /\ pc = "submit"
    /\ \A i \in Idx : phase[i] # "unsubmitted"
    /\ pc' = "collect"
    /\ UNCHANGED <<outsideRollout, jobVars, phase, hung, tres, rres,
                   transferCalls, restartCalls, futVal, futExc, collected,
                   results, report, aborted>>

\* one iteration of `for future in as_completed(future_to_host)`
Collect(i) ==
    /\ pc = "collect"
    /\ i \in Finished \ collected
    /\ collected' = collected \cup {i}
    /\ results' = IF phase[i] = "returned"
                    THEN Put(results, hosts[i], futVal[i])
                    ELSE Put(results, hosts[i],
                             ErrorResult(hosts[i], futExc[i]))
    /\ UNCHANGED <<outsideRollout, jobVars, pc, phase, hung, tres, rres,
                   transferCalls, restartCalls, futVal, futExc, report,
                   aborted>>

SuccessCount(res) == Cardinality({h \in DOMAIN res : res[h].success})

\* Event(topic="rollout.completed", payload={success, fail, duration_s})
CompletedEvent(r) ==
    Event(RolloutCompleted, nextId, [success |-> r.success,
                                     fail |-> r.fail])

\* loop exhausted: leave the with block, compute the statistics, build the
\* report, call publish(...) without awaiting the coroutine it returns, and
\* return the report
Finish ==
    /\ pc = "collect"
    /\ collected = Idx
    /\ pc' = "done"
    /\ report' = [success |-> SuccessCount(results),
                  fail |-> Cardinality(DOMAIN results) - SuccessCount(results),
                  results |-> results]
    /\ LET e == CompletedEvent(report')
       IN  /\ coros' = Append(coros, e)
           /\ published' = Published(e, FALSE)
    /\ nextId' = nextId + 1
    /\ UNCHANGED <<notBus, subscribers, inbox>>
    /\ UNCHANGED <<jobVars, phase, hung, tres, rres, transferCalls,
                   restartCalls, futVal, futExc, collected, results, aborted>>

\* KeyboardInterrupt in the main thread while it submits or waits: the with
\* block's __exit__ runs executor.shutdown(wait=True)
Abort ==
    /\ pc \in {"submit", "collect"}
    /\ pc' = "drain"
    /\ aborted' = TRUE
    /\ UNCHANGED <<outsideRollout, jobVars, phase, hung, tres, rres,
                   transferCalls, restartCalls, futVal, futExc, collected,
                   results, report>>

\* shutdown(wait=True) has joined the workers; the interrupt propagates
DrainDone ==
    /\ pc = "drain"
    /\ \A i \in Idx : phase[i] \in {"unsubmitted", "returned", "raised"}
    /\ pc' = "raised"
    /\ UNCHANGED <<outsideRollout, jobVars, phase, hung, tres, rres,
                   transferCalls, restartCalls, futVal, futExc, collected,
                   results, report, aborted>>

(***************************************************************************)
(* Rollout: worker threads of ThreadPoolExecutor(max_workers=job.parallel) *)
(***************************************************************************)
ThreadPerHost == TRUE

\* a worker thread is idle or may still be spawned
WorkerFree == Cardinality(Running) < parallel

\* a worker takes the oldest queued work item and calls backend.transfer
StartTransfer(i) ==
    /\ phase[i] = "queued"
    /\ \A j \in 1..(i - 1) : phase[j] # "queued"
    /\ WorkerFree
    /\ phase' = [phase EXCEPT ![i] = "transfer"]
    /\ transferCalls' = [transferCalls EXCEPT ![i] = @ + 1]
    /\ UNCHANGED <<outsideRollout, jobVars, pc, hung, tres, rres,
                   restartCalls, futVal, futExc, collected, results, report,
                   aborted>>

RestartAlways(tr) == TRUE

\* `if not transfer_result.success: return transfer_result`, else restart
RestartNeeded(tr) == tr.success

AnyHostname(h, inj) == Names

\* the hostname field of a HostResult the backend returns for host h: the
\* print, ssh and ansible backends set hostname=host.hostname; a backend
\* given to the constructor is any object with transfer and restart
BackendHostnames(h, inj) == IF inj THEN Names ELSE {h}

\* backend.transfer returns a HostResult; _process_host returns it or goes on
\* to call backend.restart
TransferReturns(i, o) ==
    /\ phase[i] = "transfer"
    /\ i \notin hung
    /\ tres' = [tres EXCEPT ![i] = o]
    /\ IF RestartNeeded(TransferResult(hosts[i], o))
         THEN /\ phase' = [phase EXCEPT ![i] = "restart"]
              /\ restartCalls' = [restartCalls EXCEPT ![i] = @ + 1]
              /\ UNCHANGED futVal
         ELSE /\ phase' = [phase EXCEPT ![i] = "returned"]
              /\ \E hn \in BackendHostnames(hosts[i], injected) :
                    futVal' = [futVal EXCEPT ![i] = TransferResult(hn, o)]
              /\ UNCHANGED restartCalls
    /\ UNCHANGED <<outsideRollout, jobVars, pc, hung, rres,
                   transferCalls, futExc, collected, results, report,
                   aborted>>

\* backend.transfer raises: the exception is stored in the future
TransferRaises(i) ==
    /\ phase[i] = "transfer"
    /\ i \notin hung
    /\ phase' = [phase EXCEPT ![i] = "raised"]
    /\ futExc' = [futExc EXCEPT ![i] = TransferException]
    /\ UNCHANGED <<outsideRollout, jobVars, pc, hung, tres, rres,
                   transferCalls, restartCalls, futVal, collected, results,
                   report, aborted>>

\* backend.restart returns a HostResult: the final result of _process_host
RestartReturns(i, o) ==
    /\ phase[i] = "restart"
    /\ i \notin hung
    /\ phase' = [phase EXCEPT ![i] = "returned"]
    /\ rres' = [rres EXCEPT ![i] = o]
    /\ \E hn \in BackendHostnames(hosts[i], injected) :
          futVal' = [futVal EXCEPT ![i] = RestartResult(hn, o)]
    /\ UNCHANGED <<outsideRollout, jobVars, pc, hung, tres,
                   transferCalls, restartCalls, futExc, collected, results,
                   report, aborted>>

\* backend.restart raises
RestartRaises(i) ==
    /\ phase[i] = "restart"
    /\ i \notin hung
    /\ phase' = [phase EXCEPT ![i] = "raised"]
    /\ futExc' = [futExc EXCEPT ![i] = RestartException]
    /\ UNCHANGED <<outsideRollout, jobVars, pc, hung, tres, rres,
                   transferCalls, restartCalls, futVal, collected, results,
                   report, aborted>>

\* the backend call in progress for host i never returns; nothing in execute
\* or _process_host bounds it (job.timeout_s is not read)
Hangs(i) ==
    /\ i \in Running \ hung
    /\ hung' = hung \cup {i}
    /\ UNCHANGED <<outsideRollout, jobVars, pc, phase, tres, rres,
                   transferCalls, restartCalls, futVal, futExc, collected,
                   results, report, aborted>>

Worker ==
    \/ \E i \in Idx : StartTransfer(i)
    \/ \E i \in Idx, o \in {"ok", "fail"} : TransferReturns(i, o)
    \/ \E i \in Idx : TransferRaises(i)
    \/ \E i \in Idx, o \in {"ok", "fail"} : RestartReturns(i, o)
    \/ \E i \in Idx : RestartRaises(i)

MainThread ==
    \/ GetBackend
    \/ Submit
    \/ SubmitDone
    \/ \E i \in Idx : Collect(i)
    \/ Finish
    \/ DrainDone

RolloutNext ==
    \/ MainThread
    \/ Worker
    \/ \E i \in Idx : Hangs(i)
    \/ Abort

RolloutSpec == RolloutInit /\ [][RolloutNext]_vars

\* The threads of the interpreter are scheduled fairly: a thread that can take
\* a step eventually does.  A hang and an interrupt are the environment's.
FairRolloutSpec ==
    /\ RolloutSpec
    /\ WF_vars(MainThread)
    /\ WF_vars(Worker)

(***************************************************************************)
(* Rollout: properties                                                     *)
(***************************************************************************)
DistinctHostnames == \A i, j \in Idx : hosts[i] = hosts[j] => i = j

\* What execute reports for host i when nothing but host i's own backend
\* calls decides it: the result its future returned, or the failed result
\* made from the exception its future raised.
OwnResult(i) ==
    IF phase[i] = "returned" THEN futVal[i]
    ELSE ErrorResult(hosts[i], futExc[i])

\* C1: whatever the backend does per host (success, failed result, raised
\* exception), the report execute returns has success + fail equal to the
\* number of hosts of the job, and every hostname of the job is a key of
\* report.results.
C1_ReportCoversEveryHost ==
    pc = "done" =>
        /\ report.success + report.fail = N
        /\ \A i \in Idx : hosts[i] \in DOMAIN report.results

\* C1, for the jobs whose hostnames are pairwise distinct: the report counts
\* every host.
ReportCoversDistinctHosts ==
    (pc = "done" /\ DistinctHostnames) =>
        /\ report.success + report.fail = N
        /\ DOMAIN report.results = {hosts[i] : i \in Idx}

\* C2: per host, backend.restart is invoked at most once and only after that
\* host's backend.transfer returned a successful result; after a failed
\* transfer restart is never invoked and the transfer result is what
\* _process_host returns; after a successful transfer the restart result is
\* what _process_host returns.
C2_TwoPhase ==
    \A i \in Idx :
        /\ restartCalls[i] <= 1
        /\ restartCalls[i] = 1 => (transferCalls[i] = 1 /\ tres[i] = "ok")
        /\ tres[i] = "fail" =>
              /\ restartCalls[i] = 0
              /\ phase[i] = "returned"
              /\ futVal[i] = TransferResult(hosts[i], "fail")
        /\ (tres[i] = "ok" /\ phase[i] = "returned") =>
              /\ rres[i] # "none"
              /\ futVal[i] = RestartResult(hosts[i], rres[i])

\* one host ended with its failed transfer, another with its restart
C2_Witness ==
    \E i, j \in Idx :
        /\ tres[i] = "fail" /\ phase[i] = "returned" /\ restartCalls[i] = 0
        /\ tres[j] = "ok" /\ phase[j] = "returned" /\ restartCalls[j] = 1

\* C3: when a backend call raises for a host, execute still returns a report
\* in which that host has a failed result whose message contains the
\* exception text, and every other host has the result its own backend calls
\* produced.
C3_ExceptionIsolated ==
    (pc = "done" /\ \E k \in Idx : phase[k] = "raised") =>
        \A i \in Idx :
            IF phase[i] = "raised"
              THEN /\ ~report.results[hosts[i]].success
                   /\ Contains(report.results[hosts[i]].message, futExc[i])
              ELSE report.results[hosts[i]] = futVal[i]

\* C3, for the jobs whose hostnames are pairwise distinct.
ExceptionIsolatedForDistinctHosts ==
    (pc = "done" /\ DistinctHostnames) =>
        \A i \in Idx : report.results[hosts[i]] = OwnResult(i)

\* C4: at every moment the number of hosts whose transfer or restart call is
\* in progress is at most job.parallel.
C4_BoundedParallelism == Cardinality(Running) <= parallel

\* every worker is busy while a further host waits in the queue
C4_Witness ==
    /\ Cardinality(Running) = parallel
    /\ \E i \in Idx : phase[i] = "queued"

\* C9: execute eventually returns its report even if a backend call for some
\* host never returns (unless the caller interrupts it).
C9_EventuallyReturns == <>(pc = "done" \/ aborted)

\* Without a hanging backend call execute does return.
ReturnsUnlessHung == <>(pc = "done" \/ aborted \/ hung # {})

\* C10: once the caller has signalled abort, no host operation that has not
\* yet started is started.
C10_NoStartAfterAbort ==
    [][aborted => \A i \in Idx : phase[i] = "queued" => phase'[i] = "queued"]_vars

\* C21: execute of a job whose host list is empty aborts with a
\* configuration error; it does not return a report.
C21_EmptyHostListRejected == hosts = <<>> => pc # "done"

\* the last entry of job.hosts that carries hostname h
LastIndex(h) ==
    CHOOSE i \in Idx : hosts[i] = h /\ \A j \in Idx : hosts[j] = h => j <= i

\* C25: the report is decided by the per-host outcomes alone, whatever the
\* order in which the hosts' operations ran and completed; it is the report
\* of the run that completes the hosts in the order of job.hosts.
C25_ReportOrderIndependent ==
    pc = "done" =>
        /\ \A h \in DOMAIN report.results :
              report.results[h] = OwnResult(LastIndex(h))
        /\ report.success =
              Cardinality({h \in DOMAIN report.results :
                              OwnResult(LastIndex(h)).success})
        /\ report.fail = Cardinality(DOMAIN report.results) - report.success

(***************************************************************************)
(* Rollout: backend selection                                              *)
(***************************************************************************)
MaxModeHosts == 2

\* the mode strings a caller passes: the three known ones and one that is not
ModeStrings == KnownModes \cup {"invalid"}

\* execute called with any mode string, on an orchestrator constructed with
\* or without a backend
ModeInit ==
    /\ hosts \in UNION {[1..n -> Names] : n \in 0..MaxModeHosts}
    /\ parallel \in 1..MaxParallel
    /\ mode \in ModeStrings
    /\ injected \in BOOLEAN
    /\ ExecuteCalled

ModeNext ==
    \/ UnknownMode
    \/ RolloutNext

ModeSpec == ModeInit /\ [][ModeNext]_vars

NothingDispatched ==
    /\ \A i \in Idx : phase[i] = "unsubmitted"
    /\ \A i \in Idx : transferCalls[i] = 0 /\ restartCalls[i] = 0

\* C20 as stated: execute called with a mode other than print, ssh or
\* ansible ends in the configuration error, and no transfer or restart is
\* invoked.
C20_UnknownModeFails ==
    mode \notin KnownModes =>
        /\ pc \in {"start", "config_error"}
        /\ NothingDispatched

\* C20, amended: on an orchestrator constructed without a backend, execute
\* called with a mode other than print, ssh or ansible ends in the
\* configuration error, and no transfer or restart is invoked.
C20_UnknownModeFailsWithoutBackend ==
    (mode \notin KnownModes /\ ~injected) =>
        /\ pc \in {"start", "config_error"}
        /\ NothingDispatched

C20_Witness ==
    /\ mode \notin KnownModes
    /\ ~injected
    /\ hosts # <<>>
    /\ pc = "config_error"

\* C30 as stated: in the report execute returns, the hostname field of
\* every stored HostResult equals its key, whatever the backend returned.
C30_HostnameEqualsKey ==
    pc = "done" =>
        \A h \in DOMAIN report.results : report.results[h].hostname = h

\* C30, amended: with the print, ssh or ansible backend (no backend given
\* to the constructor) the hostname field of every stored HostResult equals
\* its key; with any backend this holds for the results execute builds
\* itself from an exception.
C30_HostnameEqualsKeyBuiltIn ==
    pc = "done" =>
        /\ ~injected =>
              \A h \in DOMAIN report.results : report.results[h].hostname = h
        /\ (DistinctHostnames /\ hosts # <<>>) =>
              \A i \in Idx :
                 phase[i] = "raised" =>
                     report.results[hosts[i]].hostname = hosts[i]

C30_Witness ==
    /\ pc = "done"
    /\ ~injected
    /\ DistinctHostnames
    /\ \E i \in Idx : phase[i] = "returned"
    /\ \E i \in Idx : phase[i] = "raised"

(***************************************************************************)
(* Metrics client: CircuitBreaker                                          *)
(***************************************************************************)
WindowElapsedStrict(t, os, rs) == t - os > rs

\* `current_time - self._open_since >= self._reset_seconds`
WindowElapsed(t, os, rs) == t - os >= rs

HalfOpenReset(thr) == thr - 1

\* `self._failures = 0` in is_open, once the window has elapsed
FailuresAfterReset(thr) == 0

\* CircuitBreaker.is_open at time t: the answer and the failure count the
\* property leaves behind
IsOpen(f, os, t, thr, rs) ==
    IF f >= thr
      THEN IF WindowElapsed(t, os, rs)
             THEN [open |-> FALSE, failures |-> FailuresAfterReset(thr)]
             ELSE [open |-> TRUE, failures |-> f]
      ELSE [open |-> FALSE, failures |-> f]

RecordFailureNoStamp(f, os, t, thr) == [failures |-> f + 1, open_since |-> os]

\* CircuitBreaker.record_failure at time t
RecordFailure(f, os, t, thr) ==
    [failures |-> f + 1,
     open_since |-> IF f + 1 = thr THEN t ELSE os]

\* CircuitBreaker.record_success
RecordSuccess == 0

(***************************************************************************)
(* Metrics client: NRDBClient.query                                        *)
(***************************************************************************)
\* How the network attempt of a query ends:
\*   ok            a 2xx response with a parsable body and no "errors"
\*   net_error     requests.post or raise_for_status raises RequestException
\*   parse_error   a 2xx response whose body response.json() cannot parse
\*   graphql_error a 2xx response whose body carries "errors"
Outcomes == {"ok", "net_error", "parse_error", "graphql_error"}

Raised == {"net_error", "parse_error", "graphql_error"}

\* The breaker after the try block of query ended with outcome o at time t,
\* entered with failure count f: raise_for_status passing is followed by
\* record_success before the body is parsed; the except clause (which names
\* RequestException, KeyError and JSONDecodeError, not the RuntimeError of a
\* GraphQL error) calls record_failure.
AfterAttempt(o, f, os, t, thr) ==
    CASE o = "ok" ->
           [failures |-> RecordSuccess, open_since |-> os, success |-> TRUE]
      [] o = "net_error" ->
           [failures |-> RecordFailure(f, os, t, thr).failures,
            open_since |-> RecordFailure(f, os, t, thr).open_since,
            success |-> FALSE]
      [] o = "parse_error" ->
           [failures |-> RecordFailure(RecordSuccess, os, t, thr).failures,
            open_since |-> RecordFailure(RecordSuccess, os, t, thr).open_since,
            success |-> TRUE]
      [] o = "graphql_error" ->
           [failures |-> RecordSuccess, open_since |-> os, success |-> TRUE]

\* the outcomes whose exception the except clause of query catches, so that
\* record_failure is called
FailureRecorded == {"net_error", "parse_error"}

Min(a, b) == IF a <= b THEN a ELSE b

RolloutIdle ==
    /\ hosts = <<>>
    /\ parallel = 1
    /\ mode = "print"
    /\ injected = FALSE
    /\ pc = "done"
    /\ phase = <<>>
    /\ hung = {}
    /\ tres = <<>>
    /\ rres = <<>>
    /\ transferCalls = <<>>
    /\ restartCalls = <<>>
    /\ futVal = <<>>
    /\ futExc = <<>>
    /\ collected = {}
    /\ results = <<>>
    /\ report = NoReport
    /\ aborted = FALSE

\* A client with an API key and an account id, its breaker as constructed;
\* the clock reads a time at which the epoch lies further back than any
\* reset window.
BreakerInit ==
    /\ threshold \in 1..MaxThreshold
    /\ reset_seconds \in 1..MaxReset
    /\ failures = 0
    /\ open_since = 0
    /\ now = MaxReset
    /\ lastCall = NoCall
    /\ streak = 0
    /\ probeFailAt = -1
    /\ failedAt = -1
    /\ RolloutIdle
    /\ ValidatorIdle
    /\ ThreadsIdle
    /\ ClientIdle
    /\ BusEmpty

\* query() finds the breaker open and raises RuntimeError before any request
QueryRejected ==
    /\ IsOpen(failures, open_since, now, threshold, reset_seconds).open
    /\ lastCall' = [result |-> "rejected", net |-> FALSE, at |-> now,
                    preFailures |-> failures, preOpen |-> open_since,
                    checkedFailures |-> failures, postFailures |-> failures,
                    successRecorded |-> FALSE, preStreak |-> streak,
                    prevResult |-> lastCall.result,
                    prevProbeFailAt |-> probeFailAt]
    /\ probeFailAt' = -1
    /\ UNCHANGED <<outsideBreaker, threshold, reset_seconds, failures,
                   open_since, now, streak, failedAt>>

\* query() passes the breaker check and posts the request, which ends with
\* outcome o after d seconds
QueryAttempt(o, d) ==
    LET chk == IsOpen(failures, open_since, now, threshold, reset_seconds)
        t2 == now + d
        aft == AfterAttempt(o, chk.failures, open_since, t2, threshold)
    IN  /\ ~chk.open
        /\ t2 <= MaxTime
        /\ failures' = aft.failures
        /\ open_since' = aft.open_since
        /\ now' = t2
        /\ streak' = IF o \in Raised THEN Min(streak + 1, MaxThreshold) ELSE 0
        /\ probeFailAt' = IF failures >= threshold /\ o \in Raised
                            THEN t2 ELSE -1
        /\ failedAt' = IF o \in FailureRecorded THEN t2 ELSE failedAt
        /\ lastCall' = [result |-> IF o = "ok" THEN "returned" ELSE o,
                        net |-> TRUE, at |-> now,
                        preFailures |-> failures, preOpen |-> open_since,
                        checkedFailures |-> chk.failures,
                        postFailures |-> aft.failures,
                        successRecorded |-> aft.success,
                        preStreak |-> streak,
                        prevResult |-> lastCall.result,
                        prevProbeFailAt |-> probeFailAt]
        /\ UNCHANGED <<outsideBreaker, threshold, reset_seconds>>

\* time passes between two calls
Tick ==
    /\ now < MaxTime
    /\ now' = now + 1
    /\ UNCHANGED <<outsideBreaker, threshold, reset_seconds, failures,
                   open_since, lastCall, streak, probeFailAt, failedAt>>

BreakerNext ==
    \/ QueryRejected
    \/ \E o \in Outcomes, d \in 0..MaxDelay : QueryAttempt(o, d)
    \/ Tick

BreakerSpec == BreakerInit /\ [][BreakerNext]_vars

C6_SingleFailureReopens ==
    (/\ lastCall.prevProbeFailAt >= 0
     /\ lastCall.prevResult = "net_error"
     /\ lastCall.at - lastCall.prevProbeFailAt < reset_seconds)
        => (lastCall.result = "rejected" /\ ~lastCall.net)

\* C6 amended: the call let through after the window starts from a failure
\* count of zero, so after its failure the count is at most 1; the call that
\* follows is let through to the network whenever failureThreshold > 1, and
\* can be rejected only when failureThreshold = 1.
C6_ReopenNeedsThreshold ==
    lastCall.prevProbeFailAt >= 0 =>
        /\ lastCall.preFailures <= 1
        /\ threshold > 1 => lastCall.net
        /\ lastCall.result = "rejected" => threshold = 1

\* with failureThreshold > 1, the call right after the failed post-window
\* call went to the network
C6_Witness ==
    /\ threshold > 1
    /\ lastCall.prevProbeFailAt >= 0
    /\ lastCall.prevResult = "net_error"
    /\ lastCall.at - lastCall.prevProbeFailAt < reset_seconds
    /\ lastCall.preFailures = 1
    /\ lastCall.net

\* C7: every query that passes the breaker check and fails, whatever the
\* kind of failure, increments consecutiveFailures by exactly one.
C7_EveryFailureCounted ==
    lastCall.result \in Raised =>
        lastCall.postFailures = lastCall.checkedFailures + 1

\* C7, for the failures of requests.post and raise_for_status alone.
NetErrorCounted ==
    lastCall.result = "net_error" =>
        lastCall.postFailures = lastCall.checkedFailures + 1

\* C8: a query call records the breaker success (resetting
\* consecutiveFailures to zero) if and only if it returns a result to its
\* caller; a call that ends by raising never does.
C8_ResetOnlyOnReturn ==
    lastCall.result # "none" =>
        (lastCall.successRecorded <=> lastCall.result = "returned")

\* C27: in any sequence of non-overlapping query calls the failure count
\* stays within 0..failureThreshold, and whenever it equals the threshold
\* open_since is the time of the failure that brought it there.
C27_CountBoundedAndStamped ==
    /\ failures \in 0..threshold
    /\ failures = threshold => open_since = failedAt

\* an open breaker with a threshold above 1 that has just rejected a call,
\* some time after it opened
C27_Witness ==
    /\ threshold > 1
    /\ failures = threshold
    /\ lastCall.result = "rejected"
    /\ now > open_since
    /\ open_since > MaxReset

(***************************************************************************)
(* Metrics client: one NRDBClient and its CircuitBreaker shared by several *)
(* threads.  The breaker holds no lock, so the statements of its methods   *)
(* interleave; `self._failures += 1` is a load followed by a store.        *)
(***************************************************************************)
MaxThreads == 2
MaxRecorded == 5

Threads == 1..MaxThreads

\* a thread that is not inside query()
BetweenCalls == {"idle", "rejected"}

threadFixed == <<rolloutVars, validateVars, clientVars, busVars, threshold,
                 reset_seconds, lastCall, streak, probeFailAt, failedAt>>

ThreadInit ==
    /\ threshold \in 1..MaxThreshold
    /\ reset_seconds \in 1..MaxReset
    /\ failures = 0
    /\ open_since = 0
    /\ now = MaxReset
    /\ lastCall = NoCall
    /\ streak = 0
    /\ probeFailAt = -1
    /\ failedAt = -1
    /\ tpc = [t \in Threads |-> "idle"]
    /\ tlocal = [t \in Threads |-> 0]
    /\ recorded = 0
    /\ reachedAt = -1
    /\ RolloutIdle
    /\ ValidatorIdle
    /\ ClientIdle
    /\ BusEmpty

\* query(): `if self._circuit_breaker.is_open: raise RuntimeError(...)`
TRejected(t) ==
    /\ tpc[t] \in BetweenCalls
    /\ IsOpen(failures, open_since, now, threshold, reset_seconds).open
    /\ tpc' = [tpc EXCEPT ![t] = "rejected"]
    /\ UNCHANGED <<threadFixed, failures, open_since, now, tlocal, recorded,
                   reachedAt>>

\* query(): is_open answers False (resetting the count when the window has
\* elapsed) and the request is sent
TAdmitted(t) ==
    /\ tpc[t] \in BetweenCalls
    /\ LET chk == IsOpen(failures, open_since, now, threshold, reset_seconds)
       IN /\ ~chk.open
          /\ failures' = chk.failures
          /\ recorded' = IF chk.failures = failures THEN recorded ELSE 0
          /\ reachedAt' = IF chk.failures = failures THEN reachedAt ELSE -1
    /\ tpc' = [tpc EXCEPT ![t] = "request"]
    /\ UNCHANGED <<threadFixed, open_since, now, tlocal>>

\* the response arrives with a 2xx status: record_success()
TSucceeds(t) ==
    /\ tpc[t] = "request"
    /\ failures' = RecordSuccess
    /\ recorded' = 0
    /\ reachedAt' = -1
    /\ tpc' = [tpc EXCEPT ![t] = "idle"]
    /\ UNCHANGED <<threadFixed, open_since, now, tlocal>>

\* the request raises RequestException; record_failure() begins and loads
\* self._failures (runs in which the count would pass MaxRecorded are cut)
TFails(t) ==
    /\ tpc[t] = "request"
    /\ failures < MaxRecorded
    /\ tlocal' = [tlocal EXCEPT ![t] = failures]
    /\ tpc' = [tpc EXCEPT ![t] = "rf_store"]
    /\ UNCHANGED <<threadFixed, failures, open_since, now, recorded,
                   reachedAt>>

\* record_failure(): the store of `self._failures += 1`
TStore(t) ==
    /\ tpc[t] = "rf_store"
    /\ failures' = tlocal[t] + 1
    /\ recorded' = Min(recorded + 1, MaxRecorded)
    /\ reachedAt' = IF recorded + 1 = threshold THEN now ELSE reachedAt
    /\ tlocal' = [tlocal EXCEPT ![t] = 0]
    /\ tpc' = [tpc EXCEPT ![t] = "rf_check"]
    /\ UNCHANGED <<threadFixed, open_since, now>>

\* record_failure(): `if self._failures == self._threshold:
\*                        self._open_since = time.time()`
TCompare(t) ==
    /\ tpc[t] = "rf_check"
    /\ open_since' = IF failures = threshold THEN now ELSE open_since
    /\ tpc' = [tpc EXCEPT ![t] = "idle"]
    /\ UNCHANGED <<threadFixed, failures, now, tlocal, recorded, reachedAt>>

ThreadNext ==
    \/ \E t \in Threads : TRejected(t)
    \/ \E t \in Threads : TAdmitted(t)
    \/ \E t \in Threads : TSucceeds(t)
    \/ \E t \in Threads : TFails(t)
    \/ \E t \in Threads : TStore(t)
    \/ \E t \in Threads : TCompare(t)
    \/ Tick

ThreadSpec == ThreadInit /\ [][ThreadNext]_vars

\* no thread is inside record_failure
NoRecordInProgress == \A t \in Threads : tpc[t] \notin {"rf_store", "rf_check"}

\* C11: with several threads on one client no failure is lost in any
\* interleaving of record_failure calls (the count is the number of calls
\* made since it was last reset), and once failureThreshold failures have
\* been recorded the breaker is open until the reset window, counted from
\* the time the threshold was reached, has elapsed.
C11_TransitionsSerialized ==
    NoRecordInProgress =>
        /\ failures = recorded
        /\ (recorded >= threshold /\ now - reachedAt < reset_seconds) =>
              IsOpen(failures, open_since, now, threshold, reset_seconds).open

\* C12: once the breaker has opened at time t, no query that starts before
\* t + reset_seconds is let through to the network, in any interleaving.
C12_NoAdmissionInsideWindow ==
    [][\A t \in Threads :
          (tpc[t] \in BetweenCalls /\ tpc'[t] = "request")
              => now - open_since >= reset_seconds]_vars

(***************************************************************************)
(* Validation: Validator.validate                                          *)
(***************************************************************************)
MaxJobHosts == 2
MaxRows == 2

\* ingest values a row or a job may carry, in tenths of a GiB
GiBValues == {0, 1, 79, 80, 100, 120, 130}
ExpectedValues == {0, 100}
\* job.threshold and job.confidence, in hundredths (both validated to [0, 1])
ThresholdValues == {0, 20, 100}
ConfidenceValues == {20, 50, 80, 100}
\* str() of the ValueError query raises when the API key is missing
ConfigErrorTexts ==
    {"NEW_RELIC_API_KEY environment variable or config is required"}
ExceptionTexts ==
    {"Circuit breaker is open, NRDB may be experiencing issues",
     "Connection refused"} \cup ConfigErrorTexts
TypeErrorText == "unsupported operand type(s) for /: 'NoneType' and 'int'"

HostSet(jb) == {jb.hosts[i] : i \in 1..Len(jb.hosts)}

\* index of the first row whose hostname is h, 0 if there is none
FirstMatch(rows, h) ==
    IF \E k \in 1..Len(rows) : rows[k].hostname = h
    THEN CHOOSE k \in 1..Len(rows) :
            /\ rows[k].hostname = h
            /\ \A j \in 1..(k - 1) : rows[j].hostname # h
    ELSE 0

HasRow(rows, h) == FirstMatch(rows, h) # 0

\* _extract_host_ingest raises: null / 24
ExtractRaises(rows, h) ==
    HasRow(rows, h) /\ ~rows[FirstMatch(rows, h)].numeric

\* _extract_host_ingest: (gib_ingested / timeframe_hours) * 24 of the first
\* matching row, 0.0 when no row matches
ExtractHostIngest(rows, h) ==
    IF HasRow(rows, h)
    THEN RatMul(RatDiv(Ratio(rows[FirstMatch(rows, h)].giBIngested, 1),
                       24), 24)
    ELSE Ratio(0, 1)

\* abs(actual - expected) / expected if expected > 0 else 0
Deviation(a, e) ==
    IF e > 0 THEN Ratio(Abs(a.num - e * a.den), a.den * e) ELSE Ratio(0, 1)

\* deviation <= job.threshold
WithinThreshold(dev, thr) == RatLeq(dev, Ratio(thr, 100))

\* _generate_message: the pieces of the f-string, the formatted numbers
\* written as their format fields
GenerateMessage(a, e, dev, within) ==
    <<IF within THEN "PASS" ELSE "FAIL", ": Actual ingest is ",
      "{actual:.2f}", " GiB/day, which is ", "{deviation * 100:.1f}", "% ",
      IF a.num > e * a.den THEN "higher" ELSE "lower", " than expected (",
      "{expected:.2f}", " GiB/day)">>

\* the body of `for host in job.hosts` in the try block
ValidateHost(jb, rows, h) ==
    LET actual_gib_day == ExtractHostIngest(rows, h)
        deviation == Deviation(actual_gib_day, jb.expected_gib_day)
        within_threshold == WithinThreshold(deviation, jb.threshold)
    IN HostValidationResult(h, jb.expected_gib_day, actual_gib_day,
                            within_threshold, RatMul(deviation, 100),
                            GenerateMessage(actual_gib_day,
                                            jb.expected_gib_day, deviation,
                                            within_threshold))

EmptyResults(jb, text) == <<>>

\* the except branch: an error result for every host of the job
ErrorResults(jb, text) ==
    [h \in HostSet(jb) |->
        HostValidationResult(h, jb.expected_gib_day, Ratio(0, 1), FALSE,
                             Ratio(100, 1), <<"Error querying NRDB: ", text>>)]

\* host_results when validate reaches `# Calculate pass rate`
HostResultsOf(jb, q) ==
    IF q.raises
    THEN ErrorResults(jb, q.text)
    ELSE IF \E h \in HostSet(jb) : ExtractRaises(q.results, h)
         THEN ErrorResults(jb, TypeErrorText)
         ELSE [h \in HostSet(jb) |-> ValidateHost(jb, q.results, h)]

PassCount(hr) == Cardinality({h \in DOMAIN hr : hr[h].within_threshold})

\* pass_count / len(host_results) if host_results else 0.0
PassRate(hr) ==
    IF DOMAIN hr # {}
    THEN Ratio(PassCount(hr), Cardinality(DOMAIN hr))
    ELSE Ratio(0, 1)

TrustingValidationResult(hr, op, pr) ==
    [host_results |-> hr, overall_pass |-> op, pass_rate |-> pr]

\* ValidationResult(host_results=hr, overall_pass=op, pass_rate=pr)
NewValidationResult(hr, op, pr) ==
    IF DOMAIN hr # {}
    THEN [host_results |-> hr,
          overall_pass |-> \A h \in DOMAIN hr : hr[h].within_threshold,
          pass_rate |-> PassRate(hr)]
    ELSE [host_results |-> hr, overall_pass |-> op, pass_rate |-> pr]

Jobs ==
    {ValidationJob(hs, e, c, t) :
        hs \in UNION {[1..n -> Names] : n \in 0..MaxJobHosts},
        e \in ExpectedValues, c \in ConfidenceValues, t \in ThresholdValues}

Rows ==
    {Row(h, g, TRUE) : h \in Names, g \in GiBValues}
        \cup {Row(h, 0, FALSE) : h \in Names}

QueryOutcomes ==
    {QueryReturns(r) : r \in UNION {[1..n -> Rows] : n \in 0..MaxRows}}
        \cup {QueryRaises(t) : t \in ExceptionTexts}

\* host-result mappings a caller of the constructor may pass
Mappings ==
    UNION {{[h \in S |->
                HostValidationResult(h, 100, Ratio(100, 1), w[h], Ratio(0, 1),
                                     <<>>)] : w \in [S -> BOOLEAN]} :
           S \in SUBSET Names}

GivenRates == {Ratio(0, 1), Ratio(1, 2), Ratio(1, 1)}

ValidateInit ==
    /\ job \in Jobs
    /\ vpc = "start"
    /\ vq = NoQuery
    /\ given = NoGiven
    /\ vresult = NoValidation
    /\ vqueries = 0
    /\ RolloutIdle
    /\ BreakerIdle
    /\ ClientIdle
    /\ BusEmpty

QueryPerHost(jb) == Len(jb.hosts)

\* the calls of self._nrdb_client.query that one validate call makes: the
\* one in _query_actual_ingest, outside any loop and never repeated
QueryCalls(jb) == 1

\* validator.validate(job), the metrics query doing q
Validate(q) ==
    /\ vpc = "start"
    /\ LET host_results == HostResultsOf(job, q)
           pass_rate == PassRate(host_results)
       IN /\ given' = [overall_pass |-> FALSE, pass_rate |-> pass_rate]
          /\ vresult' = NewValidationResult(host_results, FALSE, pass_rate)
    /\ vq' = q
    /\ vqueries' = vqueries + QueryCalls(job)
    /\ vpc' = "validated"
    /\ UNCHANGED <<outsideValidate, job>>

\* ValidationResult(host_results=hr, overall_pass=op, pass_rate=pr), called
\* by any code that holds a mapping
Construct(hr, op, pr) ==
    /\ vpc = "start"
    /\ given' = [overall_pass |-> op, pass_rate |-> pr]
    /\ vresult' = NewValidationResult(hr, op, pr)
    /\ vpc' = "constructed"
    /\ UNCHANGED <<outsideValidate, job, vq, vqueries>>

ValidateNext ==
    \/ \E q \in QueryOutcomes : Validate(q)
    \/ \E hr \in Mappings, op \in BOOLEAN, pr \in GivenRates :
            Construct(hr, op, pr)

ValidateSpec == ValidateInit /\ [][ValidateNext]_vars

\* validate returned and its try block ran to the end
Evaluated ==
    /\ vpc = "validated"
    /\ ~vq.raises
    /\ \A h \in HostSet(job) : ~ExtractRaises(vq.results, h)

\* C13: when the metrics query raises, the result has exactly the job's
\* hosts as keys, every entry has within_threshold = false, actual_gib_day
\* = 0 and a message containing the exception text, and overall_pass is
\* false.
C13_QueryErrorFailsEveryHost ==
    (vpc = "validated" /\ vq.raises) =>
        /\ DOMAIN vresult.host_results = HostSet(job)
        /\ \A h \in HostSet(job) :
              LET r == vresult.host_results[h]
              IN /\ r.hostname = h
                 /\ ~r.within_threshold
                 /\ RatEq(r.actual_gib_day, Ratio(0, 1))
                 /\ Contains(r.message, vq.text)
        /\ ~vresult.overall_pass

C13_Witness ==
    /\ vpc = "validated"
    /\ vq.raises
    /\ Cardinality(HostSet(job)) = 2
    /\ job.expected_gib_day = 0

\* C14: if a requested host has no row in the query results, overall_pass
\* is false, whatever the expected value and the threshold.
C14_MissingHostFailsOverall ==
    (vpc = "validated" /\ ~vq.raises
        /\ \E h \in HostSet(job) : ~HasRow(vq.results, h))
    => ~vresult.overall_pass

\* C15: a host without a row gets actual_gib_day = 0, within_threshold =
\* false and a message saying that no data was found; a host with a row
\* gets that row's ingest value as actual_gib_day.
C15_MissingHostSaysNoData ==
    Evaluated =>
        \A h \in HostSet(job) :
            LET r == vresult.host_results[h]
                k == FirstMatch(vq.results, h)
            IN IF k = 0
               THEN /\ RatEq(r.actual_gib_day, Ratio(0, 1))
                    /\ ~r.within_threshold
                    /\ Contains(r.message, "No data found")
               ELSE RatEq(r.actual_gib_day,
                          Ratio(vq.results[k].giBIngested, 1))

\* C16: a host is within threshold exactly when |actual - expected| <=
\* threshold * expected, the boundary included.
C16_WithinIffDeviationAtMostThreshold ==
    Evaluated =>
        \A h \in HostSet(job) :
            LET r == vresult.host_results[h]
                a == r.actual_gib_day
                e == job.expected_gib_day
            IN r.within_threshold <=>
                   Abs(a.num - e * a.den) * 100 <= job.threshold * e * a.den

\* C17: with expected_gib_day = 0, a host with non-zero actual ingest gets
\* deviation_percent = 100 and within_threshold = false, a host with zero
\* actual ingest gets deviation_percent = 0 and within_threshold = true.
C17_ZeroExpected ==
    (Evaluated /\ job.expected_gib_day = 0) =>
        \A h \in HostSet(job) :
            LET r == vresult.host_results[h]
            IN IF RatEq(r.actual_gib_day, Ratio(0, 1))
               THEN /\ RatEq(r.deviation_percent, Ratio(0, 1))
                    /\ r.within_threshold
               ELSE /\ RatEq(r.deviation_percent, Ratio(100, 1))
                    /\ ~r.within_threshold

\* For a positive expected value the comparison is the stated one.
WithinIffForPositiveExpected ==
    (Evaluated /\ job.expected_gib_day > 0) =>
        \A h \in HostSet(job) :
            LET r == vresult.host_results[h]
                a == r.actual_gib_day
                e == job.expected_gib_day
            IN r.within_threshold <=>
                   Abs(a.num - e * a.den) * 100 <= job.threshold * e * a.den

\* With a positive expected value and a threshold below 1, a host without
\* a row fails the job.
MissingHostFailsBelowFullThreshold ==
    (vpc = "validated" /\ ~vq.raises
        /\ job.expected_gib_day > 0 /\ job.threshold < 100
        /\ \E h \in HostSet(job) : ~HasRow(vq.results, h))
    => ~vresult.overall_pass

Constructed == vpc \in {"validated", "constructed"}

AllWithin(hr) == \A h \in DOMAIN hr : hr[h].within_threshold

\* C18 as stated: for every constructed ValidationResult, overall_pass is
\* true iff every host result of the mapping is within threshold, and
\* pass_rate is the number of hosts within threshold over the number of
\* hosts.
C18_DerivedFromMapping ==
    Constructed =>
        /\ vresult.overall_pass <=> AllWithin(vresult.host_results)
        /\ vresult.pass_rate.num * Cardinality(DOMAIN vresult.host_results)
              = PassCount(vresult.host_results) * vresult.pass_rate.den

\* C18, amended: for every ValidationResult constructed with a non-empty
\* mapping, overall_pass is true iff every host result is within threshold
\* and pass_rate is the number within threshold over the number of hosts,
\* whatever was passed to the constructor; with an empty mapping both keep
\* the values passed to the constructor.
C18_DerivedFromNonEmptyMapping ==
    Constructed =>
        IF DOMAIN vresult.host_results # {}
        THEN /\ vresult.overall_pass <=> AllWithin(vresult.host_results)
             /\ RatEq(vresult.pass_rate,
                      Ratio(PassCount(vresult.host_results),
                            Cardinality(DOMAIN vresult.host_results)))
        ELSE /\ vresult.overall_pass = given.overall_pass
             /\ vresult.pass_rate = given.pass_rate

\* a mapping with a host outside the threshold, constructed with
\* overall_pass = True and a pass rate of 1
C18_Witness ==
    /\ vpc = "constructed"
    /\ given.overall_pass
    /\ given.pass_rate = Ratio(1, 1)
    /\ Cardinality(DOMAIN vresult.host_results) = 2
    /\ PassCount(vresult.host_results) = 1

\* C19: with a base threshold of 0.2, a host deviating 30% from the
\* expected value fails at confidence 1.0 and 0.8 and passes at confidence
\* 0.5 and 0.2.
C19_ConfidenceWidensThreshold ==
    (Evaluated /\ job.threshold = 20 /\ job.expected_gib_day = 100) =>
        \A h \in HostSet(job) :
            LET k == FirstMatch(vq.results, h)
            IN (k # 0 /\ vq.results[k].giBIngested = 130) =>
                  (vresult.host_results[h].within_threshold
                      <=> job.confidence <= 50)

\* C22: a query on a client without API key fails with a configuration
\* error, and that error aborts validate as a whole: validate does not return
\* a result made of per-host failures.
C22_ConfigErrorAbortsValidate ==
    (vq.raises /\ vq.text \in ConfigErrorTexts) => vpc # "validated"

\* C24: validate issues exactly one metrics-client query per invocation,
\* whatever the number of hosts, also when that query fails.
C24_OneQueryPerValidate ==
    /\ vpc = "validated" => vqueries = 1
    /\ vpc = "start" => vqueries = 0

\* a validate call for two hosts whose query failed
C24_Witness ==
    /\ vpc = "validated"
    /\ vq.raises
    /\ Len(job.hosts) = 2
    /\ vqueries = 1

(***************************************************************************)
(* Paginating client (client/nrdb.py): NRDBClient.execute_query            *)
(***************************************************************************)
MaxRetries == 2
MaxTtl == 1
MaxClientTime == 3
MaxWait == 1

\* json.dumps(payload, sort_keys=True) of the query+variables pairs in use
QueryHashes == {"q1", "q2"}

\* parsed response bodies without "errors": one with rows, and the empty
\* object {}, which is false in a boolean context
Bodies == {"rows", "{}"}

Truthy(data) == data \notin {"None", "{}"}

Remove(c, k) == [x \in DOMAIN c \ {k} |-> c[x]]

\* `time.time() - cache_entry["timestamp"] > self.cache_ttl`
Expired(age, ttl) == age > ttl

\* _get_from_cache at time t: what it returns and the cache it leaves
GetFromCache(c, k, t, ttl) ==
    IF k \notin DOMAIN c
    THEN [data |-> "None", cache |-> c]
    ELSE IF Expired(t - c[k].timestamp, ttl)
         THEN [data |-> "None", cache |-> Remove(c, k)]
         ELSE [data |-> c[k].data, cache |-> c]

\* _store_in_cache at time t
StoreInCache(c, k, t, data) == Put(c, k, [timestamp |-> t, data |-> data])

\* the lookup execute_query makes before its loop
Lookup(k, uc) ==
    IF uc THEN GetFromCache(cache, k, ctime, cache_ttl)
    ELSE [data |-> "None", cache |-> cache]

\* the arguments of the call and the cache entry it found for them
CallRecord(k, uc) ==
    [key |-> k, use_cache |-> uc, hadEntry |-> k \in DOMAIN cache,
     entryAge |-> IF k \in DOMAIN cache THEN ctime - cache[k].timestamp ELSE 0,
     entryData |-> IF k \in DOMAIN cache THEN cache[k].data ELSE "",
     at |-> ctime]

BudgetOneMore(r, mr) == r <= mr + 1

\* `while retries <= self.max_retries`
BudgetLeft(r, mr) == r <= mr

After(d) == Min(ctime + d, MaxClientTime)

ClientInit ==
    /\ max_retries \in 0..MaxRetries
    /\ cache_ttl \in 1..MaxTtl
    /\ cache = <<>>
    /\ ctime = 0
    /\ cpc = "idle"
    /\ call = NoQueryCall
    /\ retries = 0
    /\ sent = 0
    /\ limited = 0
    /\ cresult = Ended("none", "")
    /\ RolloutIdle
    /\ ValidatorIdle
    /\ BreakerIdle
    /\ BusEmpty

\* execute_query(k, use_cache=TRUE) finds a usable cached response
CallCached(k) ==
    /\ cpc = "idle"
    /\ Truthy(Lookup(k, TRUE).data)
    /\ call' = CallRecord(k, TRUE)
    /\ cache' = Lookup(k, TRUE).cache
    /\ retries' = 0
    /\ sent' = 0
    /\ limited' = 0
    /\ cresult' = Ended("cached", Lookup(k, TRUE).data)
    /\ UNCHANGED <<max_retries, cache_ttl, ctime, cpc>>
    /\ UNCHANGED outsideClient

\* execute_query(k, uc) passes the cache check and enters the retry loop
CallStart(k, uc) ==
    /\ cpc = "idle"
    /\ ~Truthy(Lookup(k, uc).data)
    /\ call' = CallRecord(k, uc)
    /\ cache' = Lookup(k, uc).cache
    /\ retries' = 0
    /\ sent' = 0
    /\ limited' = 0
    /\ cresult' = Ended("running", "")
    /\ cpc' = "loop"
    /\ UNCHANGED <<max_retries, cache_ttl, ctime>>
    /\ UNCHANGED outsideClient

\* requests.post is called inside the loop and takes d units of time
Post(d) ==
    /\ cpc = "loop"
    /\ BudgetLeft(retries, max_retries)
    /\ sent' = sent + 1
    /\ ctime' = After(d)
    /\ UNCHANGED <<max_retries, cache_ttl, call>>
    /\ UNCHANGED outsideClient

\* status 429 with a numeric Retry-After: sleep, count, continue
RateLimited(d) ==
    /\ Post(d)
    /\ retries' = retries + 1
    /\ limited' = limited + 1
    /\ UNCHANGED <<cache, cpc, cresult>>

\* status 429 whose Retry-After is not a number: int() raises ValueError
RetryAfterInvalid(d) ==
    /\ Post(d)
    /\ limited' = limited + 1
    /\ cpc' = "idle"
    /\ cresult' = Ended("value_error", "")
    /\ UNCHANGED <<cache, retries>>

\* requests.RequestException from post or raise_for_status
RequestFails(d) ==
    /\ Post(d)
    /\ retries' = retries + 1
    /\ UNCHANGED <<cache, cpc, cresult, limited>>

\* the body has "errors": ValueError leaves the loop
GraphQLErrors(d) ==
    /\ Post(d)
    /\ cpc' = "idle"
    /\ cresult' = Ended("graphql_error", "")
    /\ UNCHANGED <<cache, retries, limited>>

\* a body without "errors" is stored when use_cache and returned
Succeeds(data, d) ==
    /\ Post(d)
    /\ cache' = IF call.use_cache
                 THEN StoreInCache(cache, call.key, After(d), data)
                 ELSE cache
    /\ cpc' = "idle"
    /\ cresult' = Ended("returned", data)
    /\ UNCHANGED <<retries, limited>>

\* the loop condition fails: RuntimeError after the loop
Exhausted ==
    /\ cpc = "loop"
    /\ ~BudgetLeft(retries, max_retries)
    /\ cpc' = "idle"
    /\ cresult' = Ended("exhausted", "")
    /\ UNCHANGED <<max_retries, cache_ttl, cache, ctime, call, retries,
                   sent, limited>>
    /\ UNCHANGED outsideClient

\* time passes between calls
ClientTick ==
    /\ cpc = "idle"
    /\ ctime < MaxClientTime
    /\ ctime' = ctime + 1
    /\ UNCHANGED <<max_retries, cache_ttl, cache, cpc, call, retries, sent,
                   limited, cresult>>
    /\ UNCHANGED outsideClient

ClientNext ==
    \/ \E k \in QueryHashes : CallCached(k)
    \/ \E k \in QueryHashes, uc \in BOOLEAN : CallStart(k, uc)
    \/ \E d \in 0..MaxWait : RateLimited(d)
    \/ \E d \in 0..MaxWait : RetryAfterInvalid(d)
    \/ \E d \in 0..MaxWait : RequestFails(d)
    \/ \E d \in 0..MaxWait : GraphQLErrors(d)
    \/ \E data \in Bodies, d \in 0..MaxWait : Succeeds(data, d)
    \/ Exhausted
    \/ ClientTick

ClientSpec == ClientInit /\ [][ClientNext]_vars

\* requests.post has a timeout and the sleeps are finite, so a call in its
\* loop always gets its next step
LoopStep ==
    \/ \E d \in 0..MaxWait : RateLimited(d)
    \/ \E d \in 0..MaxWait : RetryAfterInvalid(d)
    \/ \E d \in 0..MaxWait : RequestFails(d)
    \/ \E d \in 0..MaxWait : GraphQLErrors(d)
    \/ \E data \in Bodies, d \in 0..MaxWait : Succeeds(data, d)
    \/ Exhausted

FairClientSpec == ClientSpec /\ WF_vars(LoopStep)

\* C28: execute_query always terminates and sends at most max_retries + 1
\* requests per call; 429 responses and request exceptions use the same
\* budget, GraphQL errors are raised at once without a retry, and the call
\* raises when the budget is used up.
C28_TerminatesWithinBudget ==
    /\ [](/\ sent <= max_retries + 1
          /\ limited <= sent
          /\ cpc = "loop" => sent = retries
          /\ cresult.kind = "graphql_error" => sent = retries + 1
          /\ cresult.kind = "exhausted" =>
                 sent = max_retries + 1 /\ retries = max_retries + 1)
    /\ (cpc = "loop") ~> (cpc = "idle")

\* a call that ran out of budget on a mix of 429s and request exceptions
C28_Witness ==
    /\ cresult.kind = "exhausted"
    /\ max_retries = MaxRetries
    /\ limited >= 1
    /\ limited < sent

\* C29: with use_cache, a response is stored only after a request that
\* succeeded without GraphQL errors; an identical query within cache_ttl
\* gets the stored response without a request; after cache_ttl the entry
\* is removed and the request is sent again.
C29_CacheServesWithinTtl ==
    /\ (call.use_cache /\ call.hadEntry /\ call.entryAge <= cache_ttl) =>
           /\ cresult = Ended("cached", call.entryData)
           /\ sent = 0
    /\ (call.use_cache /\ call.hadEntry /\ call.entryAge > cache_ttl) =>
           /\ cresult.kind # "cached"
           /\ call.key \in DOMAIN cache => cache[call.key].timestamp >= call.at
    /\ \A k \in DOMAIN cache : cache[k].timestamp <= ctime

\* the part of C29 that the code keeps: an entry appears or changes only in
\* the step that returns a body without errors for a use_cache call
C29_StoredOnlyAfterSuccess ==
    [][\A k \in DOMAIN cache' :
          (k \notin DOMAIN cache \/ cache'[k] # cache[k]) =>
             /\ cpc = "loop"
             /\ call.use_cache
             /\ call.key = k
             /\ cresult' = Ended("returned", cache'[k].data)]_vars

\* the part of C29 that the code keeps for stored bodies that are not empty
C29_TruthyServedWithinTtl ==
    (/\ call.use_cache
     /\ call.hadEntry
     /\ call.entryAge <= cache_ttl
     /\ Truthy(call.entryData)) =>
        /\ cresult = Ended("cached", call.entryData)
        /\ sent = 0

(***************************************************************************)
(* Event bus (zcp_core/bus.py): SyncMemBackend                             *)
(***************************************************************************)
MaxSubscriptions == 3
MaxEvents == 2

EventTopics == {<<"test", ".", "topic">>, <<"test", ".", "other">>,
                <<"prod", ".", "topic">>}

\* list.remove(h): the list without the first occurrence of h
RemoveFirst(list, h) ==
    LET i == CHOOSE k \in DOMAIN list :
                 list[k] = h /\ \A j \in 1..(k - 1) : list[j] # h
    IN  SubSeq(list, 1, i - 1) \o SubSeq(list, i + 1, Len(list))

BusInit ==
    /\ BusEmpty
    /\ RolloutIdle
    /\ BreakerIdle
    /\ ValidatorIdle
    /\ ClientIdle

\* subscribe(handler): appended, whether or not it is in the list already
Subscribe(h) ==
    /\ Len(subscribers) < MaxSubscriptions
    /\ subscribers' = Append(subscribers, h)
    /\ UNCHANGED <<coros, inbox, published, nextId>>
    /\ UNCHANGED outsideBus

\* unsubscribe(handler) of a handler that is in the list
Unsubscribe(h) ==
    /\ \E k \in DOMAIN subscribers : subscribers[k] = h
    /\ subscribers' = RemoveFirst(subscribers, h)
    /\ UNCHANGED <<coros, inbox, published, nextId>>
    /\ UNCHANGED outsideBus

\* `await backend.publish(event)`: the coroutine runs to its end
PublishAwaited(t) ==
    /\ nextId <= MaxEvents
    /\ LET e == Event(t, nextId, <<>>)
       IN  /\ inbox' = Dispatch(subscribers, inbox, e)
           /\ published' = Published(e, TRUE)
    /\ nextId' = nextId + 1
    /\ UNCHANGED <<subscribers, coros>>
    /\ UNCHANGED outsideBus

\* `backend.publish(event)` without await: the call only creates a
\* coroutine object; its body never runs
PublishCall(t) ==
    /\ nextId <= MaxEvents
    /\ LET e == Event(t, nextId, <<>>)
       IN  /\ coros' = Append(coros, e)
           /\ published' = Published(e, FALSE)
    /\ nextId' = nextId + 1
    /\ UNCHANGED <<subscribers, inbox>>
    /\ UNCHANGED outsideBus

BusNext ==
    \/ \E h \in Handlers : Subscribe(h)
    \/ \E h \in Handlers : Unsubscribe(h)
    \/ \E t \in EventTopics : PublishAwaited(t)
    \/ \E t \in EventTopics : PublishCall(t)

BusSpec == BusInit /\ [][BusNext]_vars

\* the handler was subscribed with a matching topic when the event of this
\* log entry was published
Subscribed(entry, id) ==
    \E i \in DOMAIN entry.subscribers :
        /\ entry.subscribers[i].id = id
        /\ Matches(entry.subscribers[i], entry.event.topic)

\* the events published while the handler was subscribed with a matching
\* topic, in publish order
Owed(id) ==
    LET Mine(entry) == Subscribed(entry, id)
        mine == SelectSeq(published, Mine)
    IN  [k \in 1..Len(mine) |-> mine[k].event]

\* C23: an execute call that returns a report has delivered exactly one
\* rollout.completed notification to the subscribed consumers by the time it
\* returns, and its success and fail counts are the report's.
C23_CompletedDelivered ==
    pc = "done" =>
        \A i \in DOMAIN subscribers :
            Matches(subscribers[i], RolloutCompleted) =>
                LET got == inbox[subscribers[i].id]
                IN  /\ Len(got) = 1
                    /\ got[1].topic = RolloutCompleted
                    /\ got[1].payload = [success |-> report.success,
                                         fail |-> report.fail]

\* what the code does keep of C23: execute builds one rollout.completed
\* event with the report's counts and makes one publish call with it
C23_OnePublishCall ==
    pc = "done" =>
        /\ Len(published) = 1
        /\ published[1].event.topic = RolloutCompleted
        /\ published[1].event.payload = [success |-> report.success,
                                         fail |-> report.fail]
        /\ coros = <<published[1].event>>

\* C26: every published event is delivered exactly once to every subscriber
\* whose topic matches it and to no other, and every subscriber receives its
\* events in publish order.
C26_DeliveredOnceInOrder == \A id \in HandlerIds : inbox[id] = Owed(id)

\* what the code does keep of C26: a handler only receives events of awaited
\* publish calls made while it was subscribed with a matching topic, and it
\* receives them in publish order
C26_NoSpuriousInOrder ==
    \A id \in HandlerIds :
        \A k \in DOMAIN inbox[id] :
            /\ \E j \in DOMAIN published :
                   /\ published[j].event = inbox[id][k]
                   /\ published[j].awaited
                   /\ Subscribed(published[j], id)
            /\ k > 1 => inbox[id][k - 1].event_id <= inbox[id][k].event_id

====
